---- MODULE Spec2Model ----
(***************************************************************************)
(* DocuQuest document request form (src/app/page.tsx, component Home).     *)
(*                                                                         *)
(* The component is modelled as an event-driven state machine: the React   *)
(* state hooks are the variables, every event handler / timer callback /   *)
(* promise continuation is one atomic action (a handler runs to its next   *)
(* await, the re-render and the effects it triggers included).             *)
(*                                                                         *)
(* Strings are TLC strings, except the free-text request, which is a       *)
(* sequence of characters so that trim() can be computed.                  *)
(*                                                                         *)
(* Time is kept as the remaining delay of every pending timer; Tick lets   *)
(* time pass up to the next deadline, and a timer fires when its remaining *)
(* delay is 0: time cannot pass a due timer, and user events and network   *)
(* responses arrive strictly between deadlines.                            *)
(***************************************************************************)
EXTENDS Integers, Sequences, FiniteSets, TLC

VARIABLES
  formData,            \* useState<FormData>: employee, client, urgency, request
  clientSearch,        \* useState(''): text of the client search input
  clientResults,       \* useState<Client[]>: result set of the dropdown
  showClientDropdown,  \* useState(false): dropdown visibility flag
  isSubmitting,        \* useState(false): busy flag
  isSuccess,           \* useState(false): success banner flag
  errors,              \* useState<Partial<FormData>>: the fields that carry an error message
  searchTimeoutRef,    \* useRef: id of the last quiet-period timer created (0: undefined)
  timers,              \* pending quiet-period timers: [id, query, remaining]
  lookups,             \* lookup requests in flight, by sequence number
  lookupSeq,           \* number of lookup requests issued so far
  bannerTimers,        \* pending banner timers (remaining delay), in creation order
  webhook,             \* webhook requests in flight: [id, payload]
  sent,                \* number of webhook requests sent so far
  out                  \* what the step that ran last did to the outside world

vars == <<formData, clientSearch, clientResults, showClientDropdown, isSubmitting,
          isSuccess, errors, searchTimeoutRef, timers, lookups, lookupSeq,
          bannerTimers, webhook, sent, out>>

formVars == <<formData, errors, isSubmitting, isSuccess, bannerTimers, webhook, sent>>
searchVars == <<clientSearch, clientResults, showClientDropdown, searchTimeoutRef,
                timers, lookups, lookupSeq>>

----------------------------------------------------------------------------
(* Bounds of the model *)

MaxLookups == 2      \* lookup requests that may be issued in one run
MaxSubmits == 2      \* webhook requests that may be sent in one run
MaxResults == 2      \* longest result list a lookup response delivers

(* Program constants *)

MinQueryLen == 2     \* clientSearch.length < 2
DebounceMs == 300    \* setTimeout(..., 300)
BannerMs == 5000     \* setTimeout(..., 5000)
ResultLimit == 10    \* .limit(10)

----------------------------------------------------------------------------
(* Data *)

NoClient == [id |-> "null", name |-> "", email |-> "", company |-> ""]

\* the client records of the lookup collaborator, in server order
ClientTable ==
  << [id |-> "c1", name |-> "Acme Co", email |-> "a@acme.com", company |-> "Acme"],
     [id |-> "c2", name |-> "Bolt",    email |-> "ac@bolt.io", company |-> "Bolt Ltd"] >>

Clients == { ClientTable[i] : i \in DOMAIN ClientTable }

Employees == {"EMP002"}

UrgencyValues == {"3"}

\* texts typed into the request textarea (the empty text is its initial value)
RequestTexts == { <<" ">>, <<" ", "W", " ">> }

\* readings of the clock (new Date()), in ms since the epoch
Instants == {0, 61234}

\* texts typed into the client search input
SearchTexts == {"", "a", "ac", "acm"}

Fields == {"employee", "client", "urgency", "request"}

EmptyForm == [employee |-> "", client |-> NoClient, urgency |-> "", request |-> <<>>]

----------------------------------------------------------------------------
(* Pure helpers *)

Min(S) == CHOOSE x \in S : \A y \in S : x <= y

IsSpace(ch) == ch \in {" ", "\t", "\n"}

RECURSIVE TrimStart(_)
TrimStart(s) ==
  IF s = <<>> THEN <<>>
  ELSE IF IsSpace(Head(s)) THEN TrimStart(Tail(s)) ELSE s

RECURSIVE TrimEnd(_)
TrimEnd(s) ==
  IF s = <<>> THEN <<>>
  ELSE IF IsSpace(s[Len(s)]) THEN TrimEnd(SubSeq(s, 1, Len(s) - 1)) ELSE s

\* String.prototype.trim
Trim(s) == TrimEnd(TrimStart(s))

\* parseInt on the values of the urgency <select>; 0 stands for NaN, the value of
\* parseInt(''), which the validation keeps out of every payload
ParseInt(s) ==
  CASE s = "1" -> 1
    [] s = "2" -> 2
    [] s = "3" -> 3
    [] OTHER -> 0

\* the decimal digits of n, padded with zeros to w digits
Pad(n, w) ==
  IF w = 3 /\ n < 10 THEN "00" \o ToString(n)
  ELSE IF (w = 3 /\ n < 100) \/ (w = 2 /\ n < 10) THEN "0" \o ToString(n)
  ELSE ToString(n)

\* Date.prototype.toISOString, for an instant of the first hour after the epoch (in ms)
ToISOString(ms) ==
  "1970-01-01T00:" \o Pad(ms \div 60000, 2) \o ":" \o Pad((ms % 60000) \div 1000, 2)
    \o "." \o Pad(ms % 1000, 3) \o "Z"

\* mutant of ClientLabel: the label shows the e-mail address instead of the company
ClientLabelEmail(c) == c.name \o " (" \o c.email \o ")"

\* `${client.name} (${client.company})`
ClientLabel(c) == c.name \o " (" \o c.company \o ")"

\* the lists a lookup response can deliver: no record, or the first records of the
\* table up to the limit (.limit(10)), in server order
ResultLists ==
  { <<>>, SubSeq(ClientTable, 1, Min({Len(ClientTable), MaxResults, ResultLimit})) }

----------------------------------------------------------------------------
(* What a step does to the outside world *)

\* nothing: a state update only
Silent == [kind |-> "none", query |-> "", seq |-> 0]

\* the lookup request number n, for the search string q, was issued
Issued(n, q) == [kind |-> "lookup", query |-> q, seq |-> n]

\* the response of lookup number n was written to clientResults
Applied(n) == [kind |-> "applied", query |-> "", seq |-> n]

\* the webhook request number n was sent
Posted(n) == [kind |-> "post", query |-> "", seq |-> n]

\* console.error only: the failure of a lookup is logged, nothing is shown
Logged == [kind |-> "log", query |-> "", seq |-> 0]

\* alert('Failed to submit request. Please try again.')
Alert == [kind |-> "alert", query |-> "", seq |-> 0]

\* the webhook request succeeded: the success branch of handleSubmit ran
Succeeded == [kind |-> "success", query |-> "", seq |-> 0]

\* the pending quiet-period timer for the search string q was cancelled
Cancelled(q) == [kind |-> "cancel", query |-> q, seq |-> 0]

----------------------------------------------------------------------------
(* The search session: the quiet-period timer and the effect on clientSearch *)

\* the part of the state the debounced search effect reads and writes
SearchSession ==
  [timers |-> timers, ref |-> searchTimeoutRef, results |-> clientResults,
   show |-> showClientDropdown]

\* mutant of ClearTimeout: the pending timer is not cancelled
ClearTimeoutForgotten(ts, id) == ts

\* clearTimeout(searchTimeoutRef.current): a no-op for a timer that fired already
ClearTimeout(ts, id) == { t \in ts : t.id # id }

\* the handle setTimeout returns: an id no pending timer carries
NewTimerId(ts) == Min({ i \in 1..(Cardinality(ts) + 1) : \A t \in ts : t.id # i })

\* mutant of DebouncedSearchEffect: the handle of the new timer is not stored in
\* searchTimeoutRef, so no later run can cancel it
DebouncedSearchEffectLosesHandle(search, st) ==
  LET cleared == ClearTimeout(st.timers, st.ref)
  IN  IF Len(search) < MinQueryLen
      THEN [st EXCEPT !.timers = cleared, !.results = <<>>, !.show = FALSE]
      ELSE [st EXCEPT
              !.timers = cleared \cup
                           {[id |-> NewTimerId(cleared), query |-> search,
                             remaining |-> DebounceMs]}]

\* the body of the effect, run for the search text `search`
DebouncedSearchEffect(search, st) ==
  LET cleared == ClearTimeout(st.timers, st.ref)
  IN  IF Len(search) < MinQueryLen
      THEN [st EXCEPT !.timers = cleared, !.results = <<>>, !.show = FALSE]
      ELSE LET id == NewTimerId(cleared)
           IN  [st EXCEPT
                  !.timers = cleared \cup
                               {[id |-> id, query |-> search, remaining |-> DebounceMs]},
                  !.ref = id]

\* the cleanup the effect returned, run before the effect runs again
EffectCleanup(st) == [st EXCEPT !.timers = ClearTimeout(st.timers, st.ref)]

\* a re-render: the effect depends on [clientSearch] and runs only when it changed
Rerender(search, st) ==
  IF search = clientSearch THEN st
  ELSE DebouncedSearchEffect(search, EffectCleanup(st))

\* commit of a render that set the search text to `search` and left the session at `st`
Commit(search, st) ==
  /\ clientSearch' = search
  /\ timers' = st.timers
  /\ searchTimeoutRef' = st.ref
  /\ clientResults' = st.results
  /\ showClientDropdown' = st.show

\* the timer, if any, that a render leaving the session at `st` cancelled
CancelOutput(st) ==
  IF \E t \in timers : t \notin st.timers
  THEN Cancelled((CHOOSE t \in timers : t \notin st.timers).query)
  ELSE Silent

----------------------------------------------------------------------------
(* Form fields *)

\* <select id="employee"> onChange
SetEmployee(v) ==
  /\ v # formData.employee
  /\ formData' = [formData EXCEPT !.employee = v]
  /\ out' = Silent
  /\ UNCHANGED <<errors, isSubmitting, isSuccess, bannerTimers, webhook, sent>>
  /\ UNCHANGED searchVars

\* <select id="urgency"> onChange
SetUrgency(v) ==
  /\ v # formData.urgency
  /\ formData' = [formData EXCEPT !.urgency = v]
  /\ out' = Silent
  /\ UNCHANGED <<errors, isSubmitting, isSuccess, bannerTimers, webhook, sent>>
  /\ UNCHANGED searchVars

\* <textarea id="request"> onChange
SetRequest(v) ==
  /\ v # formData.request
  /\ formData' = [formData EXCEPT !.request = v]
  /\ out' = Silent
  /\ UNCHANGED <<errors, isSubmitting, isSuccess, bannerTimers, webhook, sent>>
  /\ UNCHANGED searchVars

----------------------------------------------------------------------------
(* Client typeahead *)

\* mutant of HandleSearchChange: clearing the search text keeps the selected client
HandleSearchChangeKeepsClient(v) ==
  /\ v # clientSearch
  /\ Commit(v, Rerender(v, SearchSession))
  /\ out' = CancelOutput(Rerender(v, SearchSession))
  /\ UNCHANGED <<lookups, lookupSeq>>
  /\ UNCHANGED <<formData, errors, isSubmitting, isSuccess, bannerTimers, webhook, sent>>

\* <input id="client"> onChange, and the effect run by the re-render
HandleSearchChange(v) ==
  /\ v # clientSearch
  /\ formData' = IF v = "" THEN [formData EXCEPT !.client = NoClient] ELSE formData
  /\ Commit(v, Rerender(v, SearchSession))
  /\ out' = CancelOutput(Rerender(v, SearchSession))
  /\ UNCHANGED <<lookups, lookupSeq>>
  /\ UNCHANGED <<errors, isSubmitting, isSuccess, bannerTimers, webhook, sent>>

\* the quiet-period timer t fires: the callback issues the lookup for the text it captured
TimerFires(t) ==
  /\ t \in timers
  /\ t.remaining = 0
  /\ lookupSeq < MaxLookups
  /\ timers' = timers \ {t}
  /\ lookupSeq' = lookupSeq + 1
  /\ lookups' = lookups \cup {lookupSeq + 1}
  /\ out' = Issued(lookupSeq + 1, t.query)
  /\ UNCHANGED <<clientSearch, clientResults, showClientDropdown, searchTimeoutRef>>
  /\ UNCHANGED formVars

\* the lookup l answers with data (null data is shown as [])
LookupSucceeds(l, data) ==
  /\ l \in lookups
  /\ lookups' = lookups \ {l}
  /\ clientResults' = data
  /\ showClientDropdown' = TRUE
  /\ out' = Applied(l)
  /\ UNCHANGED <<clientSearch, searchTimeoutRef, timers, lookupSeq>>
  /\ UNCHANGED formVars

\* mutant of LookupFails: a failed lookup empties the result set and opens the "no
\* clients found" view
LookupFailsShowsNoResults(l) ==
  /\ l \in lookups
  /\ lookups' = lookups \ {l}
  /\ clientResults' = <<>>
  /\ showClientDropdown' = TRUE
  /\ out' = Logged
  /\ UNCHANGED <<clientSearch, searchTimeoutRef, timers, lookupSeq>>
  /\ UNCHANGED formVars

\* the lookup l answers with an error, or the request throws: logged only
LookupFails(l) ==
  /\ l \in lookups
  /\ lookups' = lookups \ {l}
  /\ out' = Logged
  /\ UNCHANGED <<clientSearch, clientResults, showClientDropdown, searchTimeoutRef,
                 timers, lookupSeq>>
  /\ UNCHANGED formVars

\* mutant of HandleClickOutside: dismissing the dropdown also drops the result set
HandleClickOutsideDropsResults ==
  /\ showClientDropdown' = FALSE
  /\ clientResults' = <<>>
  /\ out' = Silent
  /\ UNCHANGED <<clientSearch, searchTimeoutRef, timers, lookups, lookupSeq>>
  /\ UNCHANGED formVars

\* mousedown outside the search input and its dropdown
HandleClickOutside ==
  /\ showClientDropdown' = FALSE
  /\ out' = Silent
  /\ UNCHANGED <<clientSearch, clientResults, searchTimeoutRef, timers, lookups, lookupSeq>>
  /\ UNCHANGED formVars

\* mutant of HandleClientSelect: any client record can be picked while the dropdown is
\* open, whether or not a lookup response delivered it
HandleClientSelectUnlisted(c) ==
  /\ showClientDropdown
  /\ formData' = [formData EXCEPT !.client = c]
  /\ Commit(ClientLabel(c),
            Rerender(ClientLabel(c), [SearchSession EXCEPT !.show = FALSE]))
  /\ out' = CancelOutput(Rerender(ClientLabel(c), SearchSession))
  /\ UNCHANGED <<lookups, lookupSeq>>
  /\ UNCHANGED <<errors, isSubmitting, isSuccess, bannerTimers, webhook, sent>>

\* click on the row of client c in the rendered dropdown
HandleClientSelect(c) ==
  /\ showClientDropdown
  /\ \E i \in 1..Len(clientResults) : clientResults[i] = c
  /\ formData' = [formData EXCEPT !.client = c]
  /\ Commit(ClientLabel(c),
            Rerender(ClientLabel(c), [SearchSession EXCEPT !.show = FALSE]))
  /\ out' = CancelOutput(Rerender(ClientLabel(c), SearchSession))
  /\ UNCHANGED <<lookups, lookupSeq>>
  /\ UNCHANGED <<errors, isSubmitting, isSuccess, bannerTimers, webhook, sent>>

----------------------------------------------------------------------------
(* Submission *)

\* mutant of Validate: the request is not trimmed before it is tested
ValidateUntrimmed(f) ==
  { x \in Fields :
      \/ x = "employee" /\ f.employee = ""
      \/ x = "client"   /\ f.client = NoClient
      \/ x = "urgency"  /\ f.urgency = ""
      \/ x = "request"  /\ f.request = <<>> }

\* the validation of handleSubmit: the fields that get an error message
Validate(f) ==
  { x \in Fields :
      \/ x = "employee" /\ f.employee = ""
      \/ x = "client"   /\ f.client = NoClient
      \/ x = "urgency"  /\ f.urgency = ""
      \/ x = "request"  /\ Trim(f.request) = <<>> }

\* mutant of Payload: the request text is sent as typed
PayloadUntrimmed(f, now) ==
  [employee |-> f.employee, client |-> f.client,
   urgency |-> ParseInt(f.urgency), request |-> f.request,
   timestamp |-> ToISOString(now)]

\* the payload built from the form values of the render that handled the submit, at the
\* instant `now`
Payload(f, now) ==
  [employee |-> f.employee, client |-> f.client,
   urgency |-> ParseInt(f.urgency), request |-> Trim(f.request),
   timestamp |-> ToISOString(now)]

\* mutant of HandleSubmit: the new errors are merged into the error map of the earlier
\* attempts instead of replacing it
HandleSubmitMergesErrors(now) ==
  /\ ~isSubmitting
  /\ sent < MaxSubmits
  /\ errors' = errors \cup Validate(formData)
  /\ IF Validate(formData) # {}
     THEN /\ out' = Silent
          /\ UNCHANGED <<isSubmitting, webhook, sent>>
     ELSE /\ isSubmitting' = TRUE
          /\ webhook' = webhook \cup {[id |-> sent + 1, payload |-> Payload(formData, now)]}
          /\ sent' = sent + 1
          /\ out' = Posted(sent + 1)
  /\ UNCHANGED <<formData, isSuccess, bannerTimers>>
  /\ UNCHANGED searchVars

\* mutant of HandleSubmit: the submit button is not disabled while a request is in flight
HandleSubmitNotDisabled(now) ==
  /\ sent < MaxSubmits
  /\ errors' = Validate(formData)
  /\ IF Validate(formData) # {}
     THEN /\ out' = Silent
          /\ UNCHANGED <<isSubmitting, webhook, sent>>
     ELSE /\ isSubmitting' = TRUE
          /\ webhook' = webhook \cup {[id |-> sent + 1, payload |-> Payload(formData, now)]}
          /\ sent' = sent + 1
          /\ out' = Posted(sent + 1)
  /\ UNCHANGED <<formData, isSuccess, bannerTimers>>
  /\ UNCHANGED searchVars

\* submit of the form (the submit button is disabled while isSubmitting), up to the fetch
HandleSubmit(now) ==
  /\ ~isSubmitting
  /\ sent < MaxSubmits
  /\ errors' = Validate(formData)
  /\ IF Validate(formData) # {}
     THEN /\ out' = Silent
          /\ UNCHANGED <<isSubmitting, webhook, sent>>
     ELSE /\ isSubmitting' = TRUE
          /\ webhook' = webhook \cup {[id |-> sent + 1, payload |-> Payload(formData, now)]}
          /\ sent' = sent + 1
          /\ out' = Posted(sent + 1)
  /\ UNCHANGED <<formData, isSuccess, bannerTimers>>
  /\ UNCHANGED searchVars

\* the webhook answers request w with a success status: banner, reset, banner timer, finally
SubmitSucceeds(w) ==
  /\ w \in webhook
  /\ webhook' = webhook \ {w}
  /\ isSuccess' = TRUE
  /\ formData' = EmptyForm
  /\ Commit("", Rerender("", [SearchSession EXCEPT !.results = <<>>]))
  /\ bannerTimers' = Append(bannerTimers, BannerMs)
  /\ isSubmitting' = FALSE
  /\ out' = Succeeded
  /\ UNCHANGED <<errors, lookups, lookupSeq, sent>>

\* mutant of SubmitFails: the form is cleared on failure as it is on success
SubmitFailsClearsForm(w) ==
  /\ w \in webhook
  /\ webhook' = webhook \ {w}
  /\ out' = Alert
  /\ isSubmitting' = FALSE
  /\ formData' = EmptyForm
  /\ UNCHANGED <<errors, isSuccess, bannerTimers, sent>>
  /\ UNCHANGED searchVars

\* mutant of SubmitFails: the busy flag is cleared on the success path only (no finally)
SubmitFailsStaysBusy(w) ==
  /\ w \in webhook
  /\ webhook' = webhook \ {w}
  /\ out' = Alert
  /\ UNCHANGED <<formData, errors, isSubmitting, isSuccess, bannerTimers, sent>>
  /\ UNCHANGED searchVars

\* the webhook answers request w with a non-success status, or fetch rejects: alert, finally
SubmitFails(w) ==
  /\ w \in webhook
  /\ webhook' = webhook \ {w}
  /\ out' = Alert
  /\ isSubmitting' = FALSE
  /\ UNCHANGED <<formData, errors, isSuccess, bannerTimers, sent>>
  /\ UNCHANGED searchVars

\* the oldest banner timer fires: () => setIsSuccess(false)
BannerTimerFires ==
  /\ bannerTimers # <<>>
  /\ Head(bannerTimers) = 0
  /\ bannerTimers' = Tail(bannerTimers)
  /\ isSuccess' = FALSE
  /\ out' = Silent
  /\ UNCHANGED <<formData, errors, isSubmitting, webhook, sent>>
  /\ UNCHANGED searchVars

----------------------------------------------------------------------------
(* Time *)

\* the remaining delays of all pending timers
Remaining ==
  { t.remaining : t \in timers } \cup { bannerTimers[i] : i \in DOMAIN bannerTimers }

\* no pending timer is due
NoTimerDue == \A r \in Remaining : r > 0

\* time passes up to the next deadline (not to a deadline whose lookup exceeds MaxLookups)
Tick ==
  /\ Remaining # {}
  /\ Min(Remaining) > 0
  /\ lookupSeq + Cardinality(timers) <= MaxLookups
  /\ timers' = { [t EXCEPT !.remaining = @ - Min(Remaining)] : t \in timers }
  /\ bannerTimers' = [i \in DOMAIN bannerTimers |-> bannerTimers[i] - Min(Remaining)]
  /\ out' = Silent
  /\ UNCHANGED <<clientSearch, clientResults, showClientDropdown, searchTimeoutRef,
                 lookups, lookupSeq>>
  /\ UNCHANGED <<formData, errors, isSubmitting, isSuccess, webhook, sent>>

----------------------------------------------------------------------------
(* The state machine *)

\* the state after mount: the useState initial values, the effect run once on ''
Init ==
  /\ formData = EmptyForm
  /\ clientSearch = ""
  /\ clientResults = <<>>
  /\ showClientDropdown = FALSE
  /\ isSubmitting = FALSE
  /\ isSuccess = FALSE
  /\ errors = {}
  /\ searchTimeoutRef = 0
  /\ timers = {}
  /\ lookups = {}
  /\ lookupSeq = 0
  /\ bannerTimers = <<>>
  /\ webhook = {}
  /\ sent = 0
  /\ out = Silent

\* user events and network responses arrive strictly between deadlines;
\* the user picks an employee and an urgency, and does not go back to the placeholder
\* option, and types a text that arms a timer only while its lookup is within MaxLookups
EmployeeChange == NoTimerDue /\ \E v \in Employees : SetEmployee(v)
UrgencyChange == NoTimerDue /\ \E v \in UrgencyValues : SetUrgency(v)
RequestChange == NoTimerDue /\ \E v \in RequestTexts : SetRequest(v)
SearchChange ==
  /\ NoTimerDue
  /\ \E v \in SearchTexts :
       /\ Len(v) >= MinQueryLen => lookupSeq < MaxLookups
       /\ HandleSearchChange(v)
LookupResponse == NoTimerDue /\ \E l \in lookups : \E data \in ResultLists : LookupSucceeds(l, data)
LookupError == NoTimerDue /\ \E l \in lookups : LookupFails(l)
ClickOutside == NoTimerDue /\ HandleClickOutside
ClientSelect == NoTimerDue /\ \E c \in Clients : HandleClientSelect(c)
Submit == NoTimerDue /\ \E now \in Instants : HandleSubmit(now)
SubmitResponse == NoTimerDue /\ \E w \in webhook : SubmitSucceeds(w)
SubmitError == NoTimerDue /\ \E w \in webhook : SubmitFails(w)

\* timer callbacks run at their deadline
DebounceFires == \E t \in timers : TimerFires(t)

Next ==
  \/ EmployeeChange
  \/ UrgencyChange
  \/ RequestChange
  \/ SearchChange
  \/ DebounceFires
  \/ LookupResponse
  \/ LookupError
  \/ ClickOutside
  \/ ClientSelect
  \/ Submit
  \/ SubmitResponse
  \/ SubmitError
  \/ BannerTimerFires
  \/ Tick

Spec == Init /\ [][Next]_vars

----------------------------------------------------------------------------
(* The form on its own: every option of the two selects, more request texts, and the   *)
(* search session at rest after a selection                                            *)

\* the options of <select id="employee">, the placeholder option included
EmployeeOptions == {"", "EMP001", "EMP002", "EMP003"}

\* the options of <select id="urgency">, the placeholder option included
UrgencyOptions == {"", "1", "2", "3"}

\* texts typed into (or deleted from) the request textarea
RequestEdits == { <<>>, <<" ">>, <<" ", "W", "\n">>, <<"W", " ", "9">> }

\* a state of the running component: the user searched, selected the client c and
\* dismissed the dropdown that the lookup for the label opened; nothing is pending
FormInit ==
  /\ \E c \in Clients :
       /\ formData = [EmptyForm EXCEPT !.client = c]
       /\ clientSearch = ClientLabel(c)
  /\ clientResults \in ResultLists
  /\ showClientDropdown = FALSE
  /\ isSubmitting = FALSE
  /\ isSuccess = FALSE
  /\ errors = {}
  /\ searchTimeoutRef = 1
  /\ timers = {}
  /\ lookups = {}
  /\ lookupSeq = 2
  /\ bannerTimers = <<>>
  /\ webhook = {}
  /\ sent = 0
  /\ out = Silent

EmployeeEdit == NoTimerDue /\ \E v \in EmployeeOptions : SetEmployee(v)
UrgencyEdit == NoTimerDue /\ \E v \in UrgencyOptions : SetUrgency(v)
RequestEdit == NoTimerDue /\ \E v \in RequestEdits : SetRequest(v)
SearchClear == NoTimerDue /\ HandleSearchChange("")

FormNext ==
  \/ EmployeeEdit
  \/ UrgencyEdit
  \/ RequestEdit
  \/ SearchClear
  \/ Submit
  \/ SubmitResponse
  \/ SubmitError
  \/ BannerTimerFires
  \/ Tick

FormSpec == FormInit /\ [][FormNext]_vars

----------------------------------------------------------------------------
(* Properties *)

\* the four required values of the form are set
AllSet(f) ==
  /\ f.employee # ""
  /\ f.client # NoClient
  /\ f.urgency # ""
  /\ \E i \in 1..Len(f.request) : ~IsSpace(f.request[i])

\* the form and the search session are in their initial, empty state
IsReset ==
  /\ formData = EmptyForm
  /\ clientSearch = ""
  /\ clientResults = <<>>
  /\ ~showClientDropdown

\* C1: a lookup response is written to clientResults only if it answers the lookup
\* issued last: the response of an earlier lookup never overwrites the result set
\* once a later lookup has been issued.
C1_NoStaleOverwrite == out.kind = "applied" => out.seq = lookupSeq

\* C2: at most one quiet-period timer is pending, and it is the one of the current
\* search text (every earlier timer was cancelled before it fired); a lookup is issued
\* only when that timer fires, with the final (current) search text as its query, and
\* it leaves no timer behind that could issue a second one.
C2_OneLookupFinalText ==
  /\ Cardinality(timers) <= 1
  /\ \A t \in timers : t.query = clientSearch /\ Len(clientSearch) >= MinQueryLen
  /\ out.kind = "lookup" => out.query = clientSearch /\ timers = {}

\* C2 witness: the search text was changed from "ac" to "acm" within the quiet period:
\* the timer of "ac" was cancelled, the timer of "acm" is pending, no lookup was issued.
C2_Witness ==
  /\ out = Cancelled("ac")
  /\ clientSearch = "acm"
  /\ \E t \in timers : t.query = "acm" /\ t.remaining = DebounceMs
  /\ lookupSeq = 0

\* C3: no lookup is issued with a query shorter than 2 characters, and whenever the
\* search text is shorter than 2 characters the dropdown is closed and the result set
\* is empty.
C3_ShortTextClosed ==
  /\ out.kind = "lookup" => Len(out.query) >= 2
  /\ Len(clientSearch) < 2 => ~showClientDropdown /\ clientResults = <<>>

\* C4: a submit attempt sends exactly one webhook request if employee, client, urgency
\* and the trimmed request are all set, and sends none otherwise.
C4_BlockedIffEmpty ==
  [][(\E now \in Instants : HandleSubmit(now)) =>
       IF AllSet(formData)
       THEN /\ sent' = sent + 1
            /\ Cardinality(webhook') = Cardinality(webhook) + 1
            /\ out'.kind = "post"
       ELSE /\ sent' = sent
            /\ webhook' = webhook
            /\ out'.kind # "post"]_vars

\* C4 witness: an attempt was blocked for a request of white space only, all else being
\* set: the request carries the only error and no webhook request was ever sent.
C4_Witness ==
  /\ errors = {"request"}
  /\ formData.request = <<" ">>
  /\ formData.employee # "" /\ formData.client # NoClient /\ formData.urgency # ""
  /\ sent = 0
  /\ webhook = {}
  /\ ~isSubmitting

\* C5: the banner shows for exactly 5 seconds after every success: it is showing as long
\* as a success is less than 5 seconds old (its timer has time left), and it never shows
\* without a pending timer that will hide it.
C5_BannerFiveSeconds ==
  /\ (\E i \in DOMAIN bannerTimers : bannerTimers[i] > 0) => isSuccess
  /\ isSuccess => bannerTimers # <<>>
  /\ \A i \in DOMAIN bannerTimers : bannerTimers[i] <= 5000

\* C6: a success leaves the form and the search session reset, and they stay reset
\* in the step that follows the success unless that step is a user input.
C6_ResetOnSuccess ==
  [][/\ (\E w \in webhook : SubmitSucceeds(w)) => IsReset'
     /\ (out.kind = "success" /\ (LookupResponse \/ LookupError \/ DebounceFires
                                    \/ BannerTimerFires \/ Tick)) => IsReset']_vars

\* C7: a failed submission shows the failure alert and leaves employee, client, urgency,
\* request, the search text and the search results unchanged; it does not show the
\* success banner and clears the busy flag.
C7_FailureKeepsForm ==
  [][(\E w \in webhook : SubmitFails(w)) =>
       /\ out' = Alert
       /\ formData' = formData
       /\ clientSearch' = clientSearch
       /\ clientResults' = clientResults
       /\ isSuccess' = isSuccess
       /\ bannerTimers' = bannerTimers
       /\ ~isSubmitting']_vars

\* C7 witness: the alert was just shown for a failed request and the form is still filled.
C7_Witness ==
  /\ out = Alert
  /\ AllSet(formData)
  /\ clientSearch = ClientLabel(formData.client)
  /\ ~isSubmitting
  /\ ~isSuccess

\* C9: selecting the result c sets client = c, sets the search text to "name (company)"
\* of c and closes the dropdown; employee, urgency and request are unchanged.
C9_SelectSetsClient ==
  [][\A c \in Clients : HandleClientSelect(c) =>
       /\ formData'.client = c
       /\ clientSearch' = c.name \o " (" \o c.company \o ")"
       /\ ~showClientDropdown'
       /\ formData'.employee = formData.employee
       /\ formData'.urgency = formData.urgency
       /\ formData'.request = formData.request]_vars

\* C9 witness: the second row of the dropdown was just selected while the form was
\* partly filled (the timer armed for the label has its whole delay left).
C9_Witness ==
  /\ formData.client = ClientTable[2]
  /\ clientSearch = "Bolt (Bolt Ltd)"
  /\ ~showClientDropdown
  /\ \E t \in timers : t.query = clientSearch /\ t.remaining = DebounceMs
  /\ formData.employee # ""
  /\ formData.request # <<>>

\* C10: changing the search text to the empty string sets client to null.
C10_ClearSetsClientNull ==
  [][HandleSearchChange("") => formData'.client = NoClient]_vars

\* C10 witness: the search text was cleared right after a client had been selected (the
\* timer armed for that client's label was cancelled by it), and the client is null.
C10_Witness ==
  /\ out = Cancelled(ClientLabel(ClientTable[1]))
  /\ clientSearch = ""
  /\ formData.client = NoClient

\* the records of the sequence rs
Range(rs) == { rs[i] : i \in DOMAIN rs }

\* C11: client is null or a record delivered by an earlier lookup response, and no
\* operation creates or modifies a record: client and the rows of the result set are
\* always records of the lookup collaborator; the result set changes only to the data a
\* lookup response delivers or to the empty list; client changes only to null or to a
\* record of the result set on display.
C11_ClientFromLookup ==
  /\ [](/\ formData.client \in Clients \cup {NoClient}
        /\ Range(clientResults) \subseteq Clients)
  /\ [][/\ clientResults' # clientResults =>
              clientResults' = <<>> \/ out'.kind = "applied"
        /\ formData'.client # formData.client =>
              formData'.client = NoClient \/ formData'.client \in Range(clientResults)]_vars

\* C11 witness: the first record of the response on display is the selected client, and
\* every lookup has completed.
C11_Witness ==
  /\ formData.client = ClientTable[1]
  /\ clientResults # <<>>
  /\ clientResults[1] = formData.client
  /\ lookups = {}
  /\ timers = {}
  /\ lookupSeq = 2

\* r is the text q without its leading and trailing white space
IsTrimOf(r, q) ==
  /\ \E i \in 0..Len(q) : \E j \in 0..(Len(q) - i) :
       /\ r = SubSeq(q, i + 1, Len(q) - j)
       /\ \A k \in 1..i : IsSpace(q[k])
       /\ \A k \in (Len(q) - j + 1)..Len(q) : IsSpace(q[k])
  /\ r # <<>> => ~IsSpace(r[1]) /\ ~IsSpace(r[Len(r)])

\* C12: an accepted submit sends a payload of exactly five fields: the employee id, the
\* whole selected client record, the urgency as the number 1, 2 or 3 that its option
\* value spells, the request without leading and trailing white space, and the time
\* stamp of the instant of the submit, all taken from the form as it is at the submit;
\* a request in flight is never altered: it stays as sent until its response arrives.
C12_PayloadIsFormAtSubmit ==
  [][/\ \A now \in Instants :
          HandleSubmit(now) /\ AllSet(formData) =>
            \E w \in webhook' \ webhook :
              /\ DOMAIN w.payload = {"employee", "client", "urgency", "request", "timestamp"}
              /\ w.payload.employee = formData.employee
              /\ w.payload.client = formData.client
              /\ w.payload.urgency \in 1..3
              /\ ToString(w.payload.urgency) = formData.urgency
              /\ IsTrimOf(w.payload.request, formData.request)
              /\ w.payload.timestamp = ToISOString(now)
     /\ \A w \in webhook : w \in webhook' \/ SubmitSucceeds(w) \/ SubmitFails(w)]_vars

\* C12 witness: the request in flight carries urgency 1 and the trimmed text, while the
\* form was edited after the submit (another urgency, the request deleted).
C12_Witness ==
  /\ isSubmitting
  /\ \E w \in webhook :
       w.payload = [employee |-> "EMP001", client |-> ClientTable[1], urgency |-> 1,
                    request |-> <<"W">>, timestamp |-> "1970-01-01T00:01:01.234Z"]
  /\ formData.employee = "EMP003"
  /\ formData.urgency = "2"
  /\ formData.request = <<>>

\* C13: a webhook request is in flight exactly while isSubmitting is true (the submit
\* control is disabled), at most one is in flight at any time, a request is sent only by
\* a submit of the user, and a failure sends nothing (no retry).
C13_OneInFlightNoRetry ==
  /\ [](/\ Cardinality(webhook) <= 1
        /\ isSubmitting <=> webhook # {})
  /\ [][/\ (webhook' \ webhook # {} \/ sent' # sent) =>
              \E now \in Instants : HandleSubmit(now)
        /\ (\E w \in webhook : SubmitFails(w)) => webhook' = {} /\ sent' = sent]_vars

\* C13 witness: the first request failed, the user submitted again, and the second
\* request is the only one in flight.
C13_Witness ==
  /\ isSubmitting
  /\ sent = 2
  /\ \E w \in webhook : w.id = 2 /\ webhook = {w}
  /\ bannerTimers = <<>>
  /\ out = Posted(2)

\* C14: a step in which a lookup completes without its data being applied (an error
\* result or an exception) only logs: the result set, the dropdown flag, the search
\* text, the form fields, the errors, the busy flag and the success flag are unchanged,
\* no timer is touched and no alert is shown.
C14_LookupFailureSilent ==
  [][(lookups' # lookups /\ lookups' \subseteq lookups /\ out'.kind # "applied") =>
       /\ out' = Logged
       /\ UNCHANGED <<clientResults, showClientDropdown, clientSearch, timers>>
       /\ UNCHANGED <<formData, errors, isSubmitting, isSuccess, bannerTimers, webhook>>]_vars

\* C14 witness: the second lookup has just failed while the results of the first are on
\* display: they still are, and the search text is the one of the failed lookup.
C14_Witness ==
  /\ out = Logged
  /\ lookupSeq = 2
  /\ lookups = {}
  /\ clientResults # <<>>
  /\ showClientDropdown
  /\ clientSearch = "acm"

\* C15: a click outside the search input and its dropdown sets the dropdown flag to
\* false and changes nothing else: the form fields (the selected client included), the
\* search text, the result set, the pending quiet-period timer and the lookups in flight
\* are as before, and so are errors, busy flag, banner and requests in flight.
C15_ClickOutsideOnlyCloses ==
  [][HandleClickOutside =>
       /\ ~showClientDropdown'
       /\ UNCHANGED <<formData, clientSearch, clientResults>>
       /\ UNCHANGED <<searchTimeoutRef, timers, lookups, lookupSeq>>
       /\ UNCHANGED <<errors, isSubmitting, isSuccess, bannerTimers, webhook, sent>>]_vars

\* C15 witness: the dropdown was dismissed while no client was selected: the results of
\* the first lookup are kept though hidden, and the second lookup is still in flight.
C15_Witness ==
  /\ ~showClientDropdown
  /\ clientResults # <<>>
  /\ formData.client = NoClient
  /\ clientSearch = "acm"
  /\ lookups = {2}
  /\ out = Silent

\* the fields of the form f that are empty or unset
EmptyFields(f) ==
  {x \in {"employee"} : f.employee = ""} \cup {x \in {"client"} : f.client = NoClient}
    \cup {x \in {"urgency"} : f.urgency = ""}
    \cup {x \in {"request"} : \A i \in 1..Len(f.request) : IsSpace(f.request[i])}

\* C16: right after a submit attempt the error map has an entry for exactly the fields
\* that were empty or unset at that attempt, whatever it held before (so it is empty
\* after an attempt with all four fields set); a rejected attempt changes the error map
\* only: form fields, search state, timers, lookups, busy flag, success flag and
\* requests are unchanged, and no alert is shown.
C16_ErrorsRecomputed ==
  [][(\E now \in Instants : HandleSubmit(now)) =>
       /\ errors' = EmptyFields(formData)
       /\ EmptyFields(formData) # {} =>
            /\ UNCHANGED <<formData, isSubmitting, isSuccess, bannerTimers, webhook, sent>>
            /\ UNCHANGED searchVars
            /\ out'.kind \notin {"alert", "post"}]_vars

\* C16 witness: a first attempt was accepted (no error) and failed; the user cleared the
\* client and a second attempt was rejected: client carries the only error.
C16_Witness ==
  /\ errors = {"client"}
  /\ sent = 1
  /\ webhook = {}
  /\ formData.client = NoClient
  /\ formData.employee # "" /\ formData.urgency # ""
  /\ Trim(formData.request) # <<>>
  /\ ~isSubmitting
  /\ bannerTimers = <<>>

\* C17: at any time at most one quiet-period timer is pending and it was armed for the
\* current search text, and a lookup that has just been issued carries the search text
\* that is current at that moment: a timer armed for an older text never fires.
C17_LookupUsesCurrentText ==
  /\ Cardinality(timers) <= 1
  /\ \A t \in timers : t.query = clientSearch
  /\ out.kind = "lookup" => out.query = clientSearch

\* C17 witness: a client was selected, which armed a timer for its label; the user then
\* typed "acm" before it fired, and the second lookup of the run was issued for "acm".
C17_Witness ==
  /\ out = Issued(2, "acm")
  /\ clientSearch = "acm"
  /\ formData.client # NoClient
  /\ timers = {}

\* a client is selected and the search text is still the label the selection wrote
SelectionStands ==
  /\ formData.client # NoClient
  /\ clientSearch = ClientLabel(formData.client)

\* C18: while a selection stands (the search text was not edited after it), no new
\* lookup is issued, and a dropdown that is closed with no lookup in flight stays closed.
C18_QuietAfterSelect ==
  [][(SelectionStands /\ SelectionStands') =>
       /\ lookupSeq' = lookupSeq
       /\ (lookups = {} /\ ~showClientDropdown) => ~showClientDropdown']_vars

\* C19: a selected client is the one the search text names: if client is not null the
\* search text is its label "name (company)", client is null whenever the search text
\* is empty, and the request a submit has just sent carries the client named in the
\* search field.
C19_ClientMatchesSearch ==
  /\ formData.client # NoClient => clientSearch = ClientLabel(formData.client)
  /\ clientSearch = "" => formData.client = NoClient
  /\ out.kind = "post" =>
       \A w \in webhook : w.id = out.seq => clientSearch = ClientLabel(w.payload.client)

----------------------------------------------------------------------------
(* Liveness *)

\* timer callbacks run when due, and a webhook request in flight completes
Fairness ==
  /\ WF_vars(DebounceFires)
  /\ WF_vars(BannerTimerFires)
  /\ WF_vars(SubmitResponse \/ SubmitError)

LiveSpec == Spec /\ Fairness

\* C8: whenever isSubmitting is true it eventually becomes false.
C8_BusyCleared == isSubmitting ~> ~isSubmitting

\* C8 witness: a request is in flight and the busy flag is set.
C8_Witness == isSubmitting /\ webhook # {}

====
